---- MODULE Spec2Model ----
(***************************************************************************)
(* Size-preserving podcast splicer: the bitrate planner, the exact-size    *)
(* padder, the AudioSplicer result cache with its temporary work file, and *)
(* the HTTP handlers that serve the spliced episode.                       *)
(*                                                                         *)
(* Sizes are byte counts, durations are whole seconds, bitrates are kbps;   *)
(* the times of a splice plan are counted in half seconds.                 *)
(* A byte buffer is modelled by what the program can observe of it: its    *)
(* length, the audio it carries and the length of its padding entry.       *)
(***************************************************************************)
EXTENDS Integers, Sequences, FiniteSets, TLC

VARIABLES
    \* harness of _calculate_target_bitrate
    duration_seconds, target_size_bytes, target_bitrate,
    \* harness of _pad_mp3_to_size
    pad_file, pad_target, pad_out,
    \* harness of the splice plan that _insert_add hands to ffmpeg
    splice_original, splice_ad, splice_target, splice_plan,
    \* the application: MediaLoader, the encoding engine, AudioSplicer.cache,
    \* the file system, the request workers and the last published feed
    loader, engine, cache, fs, wk, feed

planVars == <<duration_seconds, target_size_bytes, target_bitrate>>
padVars  == <<pad_file, pad_target, pad_out>>
spliceVars == <<splice_original, splice_ad, splice_target, splice_plan>>
appVars  == <<loader, engine, cache, fs, wk, feed>>
vars     == <<duration_seconds, target_size_bytes, target_bitrate,
              pad_file, pad_target, pad_out,
              splice_original, splice_ad, splice_target, splice_plan,
              loader, engine, cache, fs, wk, feed>>

\* How a call stands: not made yet, returned a value, or raised an exception.
Pending     == [kind |-> "pending"]
Returned(v) == [kind |-> "return", value |-> v]
Raised(e)   == [kind |-> "raise", exc |-> e]

AssertionError == "AssertionError"

(***************************************************************************)
(* Bounds of the model.                                                    *)
(***************************************************************************)
MaxDuration  == 20
MaxSizeK     == 330
MaxPadTarget == 26
MaxFileSize  == 30
MaxPriorPad  == 2
MaxOriginalSeconds == 6
MaxAdSeconds == 6

(***************************************************************************)
(* _calculate_target_bitrate                                               *)
(***************************************************************************)
common_bitrates == <<32, 40, 48, 56, 64, 80, 96, 112, 128, 160, 192, 224, 256, 320>>

Ladder == {common_bitrates[i] : i \in 1..Len(common_bitrates)}

\* The bit count multiplied by the duration instead of divided by it.
kilobits_times_seconds(d, s) == ((s * 38) \div 5000) * d

\* available_bytes = target_size_bytes * 0.95
\* target_bitrate  = int((available_bytes * 8) / duration_seconds)
\* 0.95 * 8 = 38/5, and int() truncates a non-negative quotient.
bits_per_second(d, s) == (s * 38) \div (5 * d)

\* for rate in reversed(common_bitrates): if rate * 1000 <= target_bitrate: return rate
\* assert False, "Bad args, target size is too small, fix callers"
RECURSIVE first_rate_under(_, _)
first_rate_under(i, tb) ==
    IF i = 0 THEN Raised(AssertionError)
    ELSE IF common_bitrates[i] * 1000 <= tb THEN Returned(common_bitrates[i])
    ELSE first_rate_under(i - 1, tb)

\* A planner that walks the ladder upwards returns the lowest rate that fits.
RECURSIVE lowest_rate_under(_, _)
lowest_rate_under(i, tb) ==
    IF i > Len(common_bitrates) THEN Raised(AssertionError)
    ELSE IF common_bitrates[i] * 1000 <= tb THEN Returned(common_bitrates[i])
    ELSE lowest_rate_under(i + 1, tb)

calculate_target_bitrate_ascending(d, s) == lowest_rate_under(1, bits_per_second(d, s))

\* A planner whose fallthrough yields 0 instead of raising.
calculate_target_bitrate_silent(d, s) ==
    LET r == first_rate_under(Len(common_bitrates), bits_per_second(d, s))
    IN  IF r.kind = "raise" THEN Returned(0) ELSE r

calculate_target_bitrate(d, s) ==
    first_rate_under(Len(common_bitrates), bits_per_second(d, s))

(***************************************************************************)
(* Harness of the planner: any duration and target size of the grid, plus  *)
(* the two worked examples of the documentation.                           *)
(***************************************************************************)
SizeGrid == {2500 * k + e : k \in 0..MaxSizeK, e \in {-1, 0, 1}} \ {-1}

PlanInputs ==
    ((1..MaxDuration) \X SizeGrid) \cup {<<300, 5000000>>, <<630, 10000000>>}

PlanInit ==
    /\ \E in \in PlanInputs :
          /\ duration_seconds = in[1]
          /\ target_size_bytes = in[2]
    /\ target_bitrate = Pending

PlanBitrate ==
    /\ target_bitrate = Pending
    /\ target_bitrate' = calculate_target_bitrate(duration_seconds, target_size_bytes)
    /\ UNCHANGED <<duration_seconds, target_size_bytes, padVars, spliceVars, appVars>>

(***************************************************************************)
(* _insert_add up to the ffmpeg run: the format check on the two probes,   *)
(* the bitrate, and the filter graph that is handed to ffmpeg.             *)
(***************************************************************************)
fade_duration == 2

\* Times of the filter graph, in half seconds.
halves(seconds) == 2 * seconds

\* probe["streams"][0] of a StreamAndProbe; "sample_fmt" may be missing.
ProbedStream(rate, channels) == [sample_rate |-> rate, channels |-> channels]
ProbedStreamFmt(rate, channels, fmt) ==
    [sample_rate |-> rate, channels |-> channels, sample_fmt |-> fmt]

\* A StreamAndProbe as _insert_add reads it: duration() and the first stream.
Probed(which, duration, stream) ==
    [input |-> which, duration |-> duration, stream |-> stream]

\* stream.get("sample_fmt", "s16")
sample_fmt_or_s16(stream) ==
    IF "sample_fmt" \in DOMAIN stream THEN stream.sample_fmt ELSE "s16"

\* The same comparison on the raw field, without the default.
needs_conversion_without_default(original, ad) ==
    \/ ad.stream.sample_rate # original.stream.sample_rate
    \/ ad.stream.channels # original.stream.channels
    \/ ("sample_fmt" \in DOMAIN ad.stream) # ("sample_fmt" \in DOMAIN original.stream)
    \/ /\ "sample_fmt" \in DOMAIN ad.stream
       /\ "sample_fmt" \in DOMAIN original.stream
       /\ ad.stream.sample_fmt # original.stream.sample_fmt

\* Lines 138-142.
needs_conversion(original, ad) ==
    \/ ad.stream.sample_rate # original.stream.sample_rate
    \/ ad.stream.channels # original.stream.channels
    \/ sample_fmt_or_s16(ad.stream) # sample_fmt_or_s16(original.stream)

\* An input's audio stream, before any filter.
AudioOf(which) == [kind |-> "input", input |-> which]

\* _match_audio_params: aresample and aformat on the stream, then asplit
\* into `splits` outputs when more than one is asked for.
match_audio_params(stream, original_rate, original_channels, original_format, splits) ==
    LET converted_stream ==
            [kind |-> "converted", of |-> stream,
             aresample |-> original_rate,
             sample_rates |-> original_rate,
             sample_fmts |-> original_format,
             channel_layouts |-> original_channels]
    IN  IF splits <= 1 THEN converted_stream
        ELSE [i \in 1..splits |-> [kind |-> "asplit", of |-> converted_stream, output |-> i]]

\* Lines 144-153: the three ad streams the filter graph draws from.
ad_streams(original, ad) ==
    IF needs_conversion(original, ad)
    THEN match_audio_params(AudioOf(ad.input), original.stream.sample_rate,
                            original.stream.channels,
                            sample_fmt_or_s16(original.stream), 3)
    ELSE [i \in 1..3 |-> AudioOf(ad.input)]

\* stream.filter("atrim", start=..., end=...)
Trim(name, stream, start, end) ==
    [name |-> name, stream |-> stream, start |-> start, end |-> end]

\* Lines 160-215: the seven trimmed regions, in half seconds.
regions(original, ad) ==
    LET mid_point == halves(original.duration) \div 2
        ad_duration == halves(ad.duration)
        fade == halves(fade_duration)
        ads == ad_streams(original, ad)
        music == AudioOf(original.input)
    IN  << Trim("first_half", music, 0, mid_point - fade),
           Trim("first_fade", music, mid_point - fade, mid_point),
           Trim("insert_fade_in", ads[1], 0, fade),
           Trim("insert_main", ads[2], fade, ad_duration - fade),
           Trim("insert_fade_out", ads[3], ad_duration - fade, ad_duration),
           Trim("second_fade", music, mid_point, mid_point + fade),
           Trim("second_half", music, mid_point + fade, halves(original.duration)) >>

\* atrim(start, end) on a source of source_len: the audio between the two
\* times that the source has, none when the end is not after the start.
atrim_len(start, end, source_len) ==
    LET lo == IF start < 0 THEN 0 ELSE start
        hi == IF end > source_len THEN source_len ELSE end
    IN  IF hi > lo THEN hi - lo ELSE 0

\* apad(whole_dur=d): silence is appended until the stream lasts d.
apad_len(len, whole_dur) == IF len < whole_dur THEN whole_dur ELSE len

\* acrossfade(d) of two streams: the last d of the first is mixed with the
\* first d of the second.
acrossfade_len(first, second, d) == first + second - d

\* Lines 160-225: the length, in half seconds, of the five pieces given to
\* concat: first_half, first_crossfade, insert_main, second_crossfade and
\* second_half.
concat_pieces(original, ad) ==
    LET rs == regions(original, ad)
        fade == halves(fade_duration)
        len(i, source) == atrim_len(rs[i].start, rs[i].end, halves(source.duration))
    IN  << len(1, original),
           acrossfade_len(apad_len(len(2, original), fade),
                          apad_len(len(3, ad), fade), fade),
           len(4, ad),
           acrossfade_len(apad_len(len(5, ad), fade),
                          apad_len(len(6, original), fade), fade),
           len(7, original) >>

\* _insert_add from its first line to out.run(): the planner's
\* AssertionError, or the graph and the bitrate given to ffmpeg, with the
\* duration the bitrate was planned for and the lengths of the pieces that
\* are concatenated.
insert_add_plan(original, ad, target_size) ==
    LET total_duration == original.duration + ad.duration
        bitrate == calculate_target_bitrate(total_duration, target_size)
    IN  IF bitrate.kind = "raise" THEN bitrate
        ELSE Returned([needs_conversion |-> needs_conversion(original, ad),
                       regions |-> regions(original, ad),
                       audio_bitrate |-> bitrate.value,
                       total_duration |-> total_duration,
                       streams |-> concat_pieces(original, ad)])

(***************************************************************************)
(* Harness of the splice plan: two probed inputs and a target size.        *)
(***************************************************************************)
ProbedStreams ==
    {ProbedStream(r, c) : r \in {44100, 48000}, c \in {1, 2}}
    \cup {ProbedStreamFmt(r, c, f) : r \in {44100, 48000}, c \in {1, 2}, f \in {"s16", "fltp"}}

SpliceTargets == {10000000, 1000}

SpliceInit ==
    /\ splice_original \in {Probed("original", d, st) :
                                d \in (1..MaxOriginalSeconds) \cup {600}, st \in ProbedStreams}
    /\ splice_ad \in {Probed("ad", d, st) :
                                d \in (1..MaxAdSeconds) \cup {30}, st \in ProbedStreams}
    /\ splice_target \in SpliceTargets
    /\ splice_plan = Pending

SpliceIdle ==
    /\ splice_original = Probed("original", 600, ProbedStream(44100, 2))
    /\ splice_ad = Probed("ad", 30, ProbedStream(44100, 2))
    /\ splice_target = 0
    /\ splice_plan = Pending

PlanSplice ==
    /\ splice_plan = Pending
    /\ splice_plan' = insert_add_plan(splice_original, splice_ad, splice_target)
    /\ UNCHANGED <<splice_original, splice_ad, splice_target, planVars, padVars, appVars>>

(***************************************************************************)
(* Files.  A file is absent (NoFile) or has a size, may start with an ID3  *)
(* tag, and its tag may hold a "TXXX:padding" frame whose text has `pad`   *)
(* bytes (NoFrame when it holds none).  `frame` is what one such frame     *)
(* costs in this file beyond its text: the padder takes it to be           *)
(* TXXX_FRAME_OVERHEAD, the tag writer decides what it is.  `locked` says  *)
(* that writing to the file fails (tags.save raises).  `audio` says what   *)
(* the encoder put in the file.                                            *)
(***************************************************************************)
TXXX_FRAME_OVERHEAD == 10

NoFile  == [absent |-> TRUE]
NoFrame == -1
NoAudio == [kind |-> "none"]

File(size, tagged, pad, audio) ==
    [size |-> size, tagged |-> tagged, pad |-> pad, audio |-> audio,
     frame |-> TXXX_FRAME_OVERHEAD, locked |-> FALSE]

\* The same file when it cannot be written to.
Locked(f) == [f EXCEPT !.locked = TRUE]

\* The same file under a tag writer whose padding frame costs c bytes.
WithFrame(f, c) == [f EXCEPT !.frame = c]

\* The frame costs the padder is tried on: the one it assumes, and a frame
\* that also counts its encoding byte and its "padding" description.
FrameCosts == {TXXX_FRAME_OVERHEAD, TXXX_FRAME_OVERHEAD + 9}

\* tempfile.NamedTemporaryFile(suffix=".mp3", delete=False): a new, empty file.
EmptyFile == File(0, FALSE, NoFrame, NoAudio)

(***************************************************************************)
(* _pad_mp3_to_size                                                        *)
(***************************************************************************)
\* len(b"\x00" * n): repeating a bytes object a negative number of times
\* gives the empty bytes object.
zero_bytes_len(n) == IF n < 0 THEN 0 ELSE n

\* The bytes a "TXXX:padding" frame takes in the file.
frame_bytes(f, pad) == IF pad = NoFrame THEN 0 ELSE f.frame + pad

\* A writer left to its default adds padding of its own after the frames.
tags_save_default_padding(f, text_len) ==
    [f EXCEPT !.size = f.size - frame_bytes(f, f.pad) + frame_bytes(f, text_len) + 4,
              !.pad  = text_len]

\* tags.pop("TXXX:padding"); tags.add(TXXX(desc="padding", text=padding));
\* tags.save(filename, padding=lambda x: 0): the prior frame goes, the new one
\* is written, and the writer adds no padding of its own.
tags_save(f, text_len) ==
    [f EXCEPT !.size = f.size - frame_bytes(f, f.pad) + frame_bytes(f, text_len) + 0,
              !.pad  = text_len]

\* What a run of the padder did: its return value, the file it leaves, whether
\* it got to compute padding_size (and its value), the length of the padding
\* text it wrote (NoFrame when it wrote nothing), and whether it read the tag.
PadOut(ok, f, sized, padding_size, written, tag_read) ==
    [kind |-> "return", ok |-> ok, file |-> f, sized |-> sized,
     padding_size |-> padding_size, written |-> written, tag_read |-> tag_read]

\* The padder without its final size comparison.
pad_mp3_to_size_unverified(f, target_size) ==
    IF f = NoFile THEN PadOut(FALSE, f, FALSE, 0, NoFrame, FALSE)
    ELSE IF f.size > target_size THEN PadOut(FALSE, f, FALSE, 0, NoFrame, FALSE)
    ELSE LET padding_size == (target_size - f.size) - TXXX_FRAME_OVERHEAD
         IN  IF ~f.tagged THEN PadOut(FALSE, f, TRUE, padding_size, NoFrame, FALSE)
             ELSE IF f.locked THEN PadOut(FALSE, f, TRUE, padding_size, NoFrame, TRUE)
             ELSE LET g == tags_save(f, zero_bytes_len(padding_size))
                  IN  PadOut(TRUE, g, TRUE, padding_size, zero_bytes_len(padding_size), TRUE)

\* The padder with the size guard dropped: an oversized file is rewritten too.
pad_mp3_to_size_unguarded(f, target_size) ==
    IF f = NoFile THEN PadOut(FALSE, f, FALSE, 0, NoFrame, FALSE)
    ELSE LET padding_size == (target_size - f.size) - TXXX_FRAME_OVERHEAD
         IN  IF ~f.tagged THEN PadOut(FALSE, f, TRUE, padding_size, NoFrame, FALSE)
             ELSE IF f.locked THEN PadOut(FALSE, f, TRUE, padding_size, NoFrame, TRUE)
             ELSE LET g == tags_save(f, zero_bytes_len(padding_size))
                  IN  PadOut(g.size = target_size, g, TRUE, padding_size,
                             zero_bytes_len(padding_size), TRUE)

\* The padder without its try/except: what goes wrong leaves as an exception.
pad_mp3_to_size_unprotected(f, target_size) ==
    IF f = NoFile THEN Raised("FileNotFoundError")
    ELSE IF f.size > target_size THEN PadOut(FALSE, f, FALSE, 0, NoFrame, FALSE)
    ELSE LET total_growth_needed == target_size - f.size
             padding_size == total_growth_needed - TXXX_FRAME_OVERHEAD
         IN  IF ~f.tagged THEN Raised("ID3NoHeaderError")
             ELSE IF f.locked THEN Raised("PermissionError")
             ELSE LET g == tags_save(f, zero_bytes_len(padding_size))
                  IN  PadOut(g.size = target_size, g, TRUE, padding_size,
                             zero_bytes_len(padding_size), TRUE)

\* The result of _pad_mp3_to_size(filename, target_size) on file f:
\*   os.path.getsize raises on an absent file             -> except: False
\*   initial_size > target_size                           -> False, untouched
\*   padding_size = target_size - initial_size - TXXX_FRAME_OVERHEAD
\*   mutagen.id3.ID3(filename) raises without an ID3 tag  -> except: False
\*   tags.save raises when the file cannot be written     -> except: False
\*   pop, add, save; final_size == target_size            -> True, else False
pad_mp3_to_size(f, target_size) ==
    IF f = NoFile THEN PadOut(FALSE, f, FALSE, 0, NoFrame, FALSE)
    ELSE IF f.size > target_size THEN PadOut(FALSE, f, FALSE, 0, NoFrame, FALSE)
    ELSE LET total_growth_needed == target_size - f.size
             padding_size == total_growth_needed - TXXX_FRAME_OVERHEAD
         IN  IF ~f.tagged THEN PadOut(FALSE, f, TRUE, padding_size, NoFrame, FALSE)
             ELSE IF f.locked THEN PadOut(FALSE, f, TRUE, padding_size, NoFrame, TRUE)
             ELSE LET g == tags_save(f, zero_bytes_len(padding_size))
                  IN  PadOut(g.size = target_size, g, TRUE, padding_size,
                             zero_bytes_len(padding_size), TRUE)

(***************************************************************************)
(* Harness of the padder: any file of the bounds, any target.              *)
(***************************************************************************)
PadFiles ==
    {NoFile}
    \cup {File(n, FALSE, NoFrame, NoAudio) : n \in 0..MaxFileSize}
    \cup {WithFrame(File(n, TRUE, NoFrame, NoAudio), c) :
                n \in 1..MaxFileSize, c \in FrameCosts}
    \cup {f \in {WithFrame(File(n, TRUE, p, NoAudio), c) :
                    n \in 1..MaxFileSize, p \in 0..MaxPriorPad, c \in FrameCosts} :
            f.size > frame_bytes(f, f.pad)}
    \cup {Locked(File(n, TRUE, NoFrame, NoAudio)) : n \in 1..MaxFileSize}

PadInit ==
    /\ pad_file \in PadFiles
    /\ pad_target \in 0..MaxPadTarget
    /\ pad_out = Pending

PadMp3 ==
    /\ pad_out = Pending
    /\ pad_out' = pad_mp3_to_size(pad_file, pad_target)
    /\ UNCHANGED <<pad_file, pad_target, planVars, spliceVars, appVars>>

(***************************************************************************)
(* MediaLoader: the music track and the advertisements.                    *)
(***************************************************************************)
Asset(name, duration, size) == [name |-> name, duration |-> duration, size |-> size]

Music    == Asset("music.mp3", 600, 9600000)
LowMusic == Asset("music.mp3", 600, 2400000)
Ad1      == Asset("ad1.mp3", 30, 400000)
Ad2      == Asset("ad2.mp3", 30, 800000)

\* MediaLoader.__init__: the catalogs the model starts from.
Catalogs ==
    { [ads |-> <<Ad1>>,      music_track |-> Music],
      [ads |-> <<Ad1, Ad2>>, music_track |-> Music],
      [ads |-> <<Ad1>>,      music_track |-> LowMusic] }

\* for ad in self.ads: if ad.size() > largest_ad_bytes_count: ...
RECURSIVE largest_ad_bytes_count(_, _, _)
largest_ad_bytes_count(ads, i, largest) ==
    IF i > Len(ads) THEN largest
    ELSE largest_ad_bytes_count(ads, i + 1,
                                IF ads[i].size > largest THEN ads[i].size ELSE largest)

\* The target computed from the first advertisement alone.
target_bytes_size_of_first_ad(l) ==
    LET music_and_first_ad_bytes_count == l.music_track.size + l.ads[1].size
        music_and_ten_percent_more_bytes_count == (l.music_track.size * 11) \div 10
    IN  IF music_and_first_ad_bytes_count <= music_and_ten_percent_more_bytes_count
        THEN music_and_first_ad_bytes_count
        ELSE music_and_ten_percent_more_bytes_count

\* MediaLoader.target_bytes_size; int(size * 1.1) is (size * 11) \div 10.
target_bytes_size(l) ==
    LET music_and_largest_ad_bytes_count ==
            l.music_track.size + largest_ad_bytes_count(l.ads, 1, 0)
        music_and_ten_percent_more_bytes_count == (l.music_track.size * 11) \div 10
    IN  IF music_and_largest_ad_bytes_count <= music_and_ten_percent_more_bytes_count
        THEN music_and_largest_ad_bytes_count
        ELSE music_and_ten_percent_more_bytes_count

(***************************************************************************)
(* The encoding engine (ffmpeg), as _insert_add sees it: it either writes  *)
(* a tagged file of a size near the target, or fails (ffmpeg.Error) and    *)
(* leaves the work file empty or partly written.  Which of these happens   *)
(* is not known to the program but is the same every time the same inputs  *)
(* are encoded: `engine` holds the outcome for each advertisement.         *)
(***************************************************************************)
Spliced(o, a, rate) == [kind |-> "spliced", original |-> o.name, ad |-> a.name, rate |-> rate]
Partial(o, a, rate) == [kind |-> "partial", original |-> o.name, ad |-> a.name, rate |-> rate]

EncodedOffsets == {-40, -4, 6}

EngineOutcomes ==
    {[ok |-> TRUE, off |-> d, partial |-> FALSE] : d \in EncodedOffsets}
    \cup {[ok |-> FALSE, off |-> 0, partial |-> FALSE],
          [ok |-> FALSE, off |-> 0, partial |-> TRUE]}

\* The work file after out.overwrite_output().run() ended with outcome e.
encoded_file(f, e, o, a, t, rate) ==
    IF e.ok THEN File(t + e.off, TRUE, NoFrame, Spliced(o, a, rate))
    ELSE IF e.partial THEN File(t \div 2, TRUE, NoFrame, Partial(o, a, rate))
    ELSE f

(***************************************************************************)
(* The request workers.  pc is the worker's place in insert_ad_and_pad:    *)
(*   idle -> insert -> pad -> read -> finally -> returned | raised         *)
(* and a cache hit goes from idle straight to returned.                    *)
(***************************************************************************)
Workers  == {"w1", "w2"}
TmpNames == {"tmp1.mp3", "tmp2.mp3"}
NoName   == "none"
Targets  == {10000000, 12000000, 1000000}

NoRange == [kind |-> "none"]
Range(unit_ok, start, end) ==
    [kind |-> "range", unit_ok |-> unit_ok, start |-> start, end |-> end]
\* "bytes=0-99", "bytes=100-", "bytes=-500", a range that ends past the
\* buffer and one that ends before it starts (an absent bound is -1)
RangeHeaders ==
    {NoRange, Range(TRUE, 0, 99), Range(TRUE, 100, -1),
     Range(TRUE, -1, 500), Range(TRUE, 0, 20000000), Range(TRUE, 200, 100)}

InFlightPcs == {"insert", "pad", "read", "finally"}

IdleWorker ==
    [pc |-> "idle", via |-> "api", range |-> NoRange,
     original |-> Music, ad |-> Ad1, target |-> 0, tmp |-> NoName,
     hit |-> FALSE, encoder_runs |-> 0, padder_runs |-> 0,
     insert_ok |-> Pending, pad_ok |-> Pending, out |-> Pending,
     response |-> Pending]

Key(o, a) == <<o.name, a.name>>

Put(f, k, v) == [x \in DOMAIN f \cup {k} |-> IF x = k THEN v ELSE f[x]]
Drop(f, k)   == [x \in DOMAIN f \ {k} |-> f[x]]

InFlight(w) == wk[w].pc \in InFlightPcs

\* A worker takes its next request when it has none, or when the last one
\* has ended (for an HTTP request: when its response has been sent).
Ready(w) ==
    \/ wk[w].pc \in {"idle", "responded"}
    \/ wk[w].via = "api" /\ wk[w].pc \in {"returned", "raised"}

AdNames(l) == {l.ads[i].name : i \in 1..Len(l.ads)}

AppInit ==
    /\ loader \in Catalogs
    /\ engine \in [AdNames(loader) -> EngineOutcomes]
    /\ cache = << >>
    /\ fs = << >>
    /\ wk = [w \in Workers |-> IdleWorker]
    /\ feed = Pending

PlanIdle ==
    /\ duration_seconds = 1
    /\ target_size_bytes = 0
    /\ target_bitrate = Pending

PadIdle ==
    /\ pad_file = NoFile
    /\ pad_target = 0
    /\ pad_out = Pending

\* A lookup that also wants the cached bytes to have the requested size, as
\* a cache keyed on (original, ad, target) would.
BeginKeyedOnTarget(w, via, range, o, a, t) ==
    /\ Ready(w)
    /\ LET fresh == [IdleWorker EXCEPT !.via = via, !.range = range,
                        !.original = o, !.ad = a, !.target = t]
       IN  IF Key(o, a) \in DOMAIN cache /\ cache[Key(o, a)].size = t
           THEN /\ wk' = [wk EXCEPT ![w] =
                            [fresh EXCEPT !.pc = "returned", !.hit = TRUE,
                                          !.out = Returned(cache[Key(o, a)])]]
                /\ UNCHANGED fs
           ELSE \E n \in TmpNames \ DOMAIN fs :
                    /\ fs' = Put(fs, n, EmptyFile)
                    /\ wk' = [wk EXCEPT ![w] = [fresh EXCEPT !.pc = "insert", !.tmp = n]]
    /\ UNCHANGED <<loader, engine, cache, feed, planVars, padVars, spliceVars>>

\* A miss that always takes the same work file name.
BeginWithOneTmpName(w, via, range, o, a, t) ==
    /\ Ready(w)
    /\ LET fresh == [IdleWorker EXCEPT !.via = via, !.range = range,
                        !.original = o, !.ad = a, !.target = t]
       IN  IF Key(o, a) \in DOMAIN cache
           THEN /\ wk' = [wk EXCEPT ![w] =
                            [fresh EXCEPT !.pc = "returned", !.hit = TRUE,
                                          !.out = Returned(cache[Key(o, a)])]]
                /\ UNCHANGED fs
           ELSE /\ fs' = Put(fs, "tmp1.mp3", EmptyFile)
                /\ wk' = [wk EXCEPT ![w] = [fresh EXCEPT !.pc = "insert", !.tmp = "tmp1.mp3"]]
    /\ UNCHANGED <<loader, engine, cache, feed, planVars, padVars, spliceVars>>

\* insert_ad_and_pad, lines 355-369: the cache lookup and, on a miss, the
\* creation of the temporary work file.
Begin(w, via, range, o, a, t) ==
    /\ Ready(w)
    /\ LET fresh == [IdleWorker EXCEPT !.via = via, !.range = range,
                        !.original = o, !.ad = a, !.target = t]
       IN  IF Key(o, a) \in DOMAIN cache
           THEN /\ wk' = [wk EXCEPT ![w] =
                            [fresh EXCEPT !.pc = "returned", !.hit = TRUE,
                                          !.out = Returned(cache[Key(o, a)])]]
                /\ UNCHANGED fs
           ELSE \E n \in TmpNames \ DOMAIN fs :
                    /\ fs' = Put(fs, n, EmptyFile)
                    /\ wk' = [wk EXCEPT ![w] = [fresh EXCEPT !.pc = "insert", !.tmp = n]]
    /\ UNCHANGED <<loader, engine, cache, feed, planVars, padVars, spliceVars>>

\* A direct call of AudioSplicer.insert_ad_and_pad(original, ad, target).
Call(w) ==
    \E i \in 1..Len(loader.ads), t \in Targets :
        Begin(w, "api", NoRange, loader.music_track, loader.ads[i], t)

\* _insert_add(tmp.name, original_audio, ad, target_size_bytes), line 370.
\* The planner's AssertionError is raised outside the try block and leaves
\* insert_ad_and_pad through its finally clause; an ffmpeg.Error is caught
\* and turned into False, which the caller does not look at.
InsertAdd(w) ==
    /\ wk[w].pc = "insert"
    /\ LET r == wk[w]
           total_duration == r.original.duration + r.ad.duration
           plan == calculate_target_bitrate(total_duration, r.target)
       IN  \/ /\ plan.kind = "raise"
              /\ wk' = [wk EXCEPT ![w].pc = "finally", ![w].out = Raised(plan.exc)]
              /\ UNCHANGED fs
           \/ /\ plan.kind = "return"
              /\ LET e == engine[r.ad.name]
                 IN  /\ fs' = [fs EXCEPT ![r.tmp] =
                                 encoded_file(fs[r.tmp], e, r.original, r.ad,
                                              r.target, plan.value)]
                     /\ wk' = [wk EXCEPT ![w].pc = "pad", ![w].encoder_runs = 1,
                                         ![w].insert_ok = Returned(e.ok)]
    /\ UNCHANGED <<loader, engine, cache, feed, planVars, padVars, spliceVars>>

\* _pad_mp3_to_size(tmp.name, target_size_bytes), line 371; its result is
\* not looked at.
Pad(w) ==
    /\ wk[w].pc = "pad"
    /\ LET r == wk[w]
           p == pad_mp3_to_size(fs[r.tmp], r.target)
       IN  /\ fs' = [fs EXCEPT ![r.tmp] = p.file]
           /\ wk' = [wk EXCEPT ![w].pc = "read", ![w].padder_runs = 1,
                               ![w].pad_ok = Returned(p.ok)]
    /\ UNCHANGED <<loader, engine, cache, feed, planVars, padVars, spliceVars>>

\* A request that returns its bytes without storing them in the cache.
ReadWithoutCaching(w) ==
    /\ wk[w].pc = "read"
    /\ LET r == wk[w]
       IN  \/ /\ wk' = [wk EXCEPT ![w].pc = "finally", ![w].out = Returned(fs[r.tmp])]
           \/ /\ wk' = [wk EXCEPT ![w].pc = "finally", ![w].out = Raised("OSError")]
    /\ UNCHANGED <<loader, engine, cache, fs, feed, planVars, padVars, spliceVars>>

\* Lines 373-379: read the work file, store the bytes in the cache, return
\* them (the return waits for the finally clause).  Opening or reading the
\* file may fail with an OSError, which leaves through the finally clause.
ReadAndCache(w) ==
    /\ wk[w].pc = "read"
    /\ LET r == wk[w]
       IN  \/ /\ cache' = Put(cache, Key(r.original, r.ad), fs[r.tmp])
              /\ wk' = [wk EXCEPT ![w].pc = "finally", ![w].out = Returned(fs[r.tmp])]
           \/ /\ wk' = [wk EXCEPT ![w].pc = "finally", ![w].out = Raised("OSError")]
              /\ UNCHANGED cache
    /\ UNCHANGED <<loader, engine, fs, feed, planVars, padVars, spliceVars>>

\* A cleanup that runs on the normal path only, as the body of a try block
\* without a finally clause would.
UnlinkOnReturnOnly(w) ==
    /\ wk[w].pc = "finally"
    /\ fs' = IF wk[w].out.kind = "return" THEN Drop(fs, wk[w].tmp) ELSE fs
    /\ wk' = [wk EXCEPT ![w].pc = IF wk[w].out.kind = "return" THEN "returned" ELSE "raised"]
    /\ UNCHANGED <<loader, engine, cache, feed, planVars, padVars, spliceVars>>

\* Lines 380-385: os.unlink(tmp.name), then the pending return or raise.
Finally(w) ==
    /\ wk[w].pc = "finally"
    /\ fs' = Drop(fs, wk[w].tmp)
    /\ wk' = [wk EXCEPT ![w].pc = IF wk[w].out.kind = "return" THEN "returned" ELSE "raised"]
    /\ UNCHANGED <<loader, engine, cache, feed, planVars, padVars, spliceVars>>

(***************************************************************************)
(* The HTTP handlers of app/main.py.                                       *)
(***************************************************************************)
\* rss: fe.enclosure(url, loader.target_bytes_size(), "audio/mpeg")
Rss ==
    /\ feed' = Returned(target_bytes_size(loader))
    /\ UNCHANGED <<loader, engine, cache, fs, wk, planVars, padVars, spliceVars>>

\* pretend_podcast_that_is_actually_music, lines 154-158: the handler calls
\* splicer.insert_ad_and_pad(loader.music_track, loader.random_ad(),
\* loader.target_bytes_size()); random_ad picks any index of loader.ads.
Episode(w) ==
    \E index \in 1..Len(loader.ads), h \in RangeHeaders :
        Begin(w, "http", h, loader.music_track, loader.ads[index],
              target_bytes_size(loader))

\* len(audio_bytes[start_byte : end_byte + 1]) for bounds that are not negative
slice_from(size, start_byte) == IF start_byte < size THEN start_byte ELSE size
slice_len(size, start_byte, end_byte) ==
    LET lo == slice_from(size, start_byte)
        hi == IF end_byte + 1 < size THEN end_byte + 1 ELSE size
    IN  IF hi > lo THEN hi - lo ELSE 0

\* Lines 160-210: the response built from the bytes and the Range header.
response_for(audio_bytes, h) ==
    LET audio_size == audio_bytes.size
    IN  IF h = NoRange
        THEN [status |-> 200, content_length |-> audio_size,
              body_from |-> 0, body_len |-> audio_size]
        ELSE LET start_byte == IF h.unit_ok /\ h.start >= 0 THEN h.start ELSE 0
                 end_byte   == IF h.unit_ok /\ h.end >= 0 THEN h.end ELSE audio_size - 1
             IN  [status |-> 206,
                  content_length |-> slice_len(audio_size, start_byte, end_byte),
                  body_from |-> slice_from(audio_size, start_byte),
                  body_len |-> slice_len(audio_size, start_byte, end_byte),
                  range_start |-> start_byte, range_end |-> end_byte,
                  range_size |-> audio_size]

\* The handler's response; an exception that leaves the handler becomes the
\* framework's 500 response.
Respond(w) ==
    /\ wk[w].via = "http"
    /\ \/ /\ wk[w].pc = "returned"
          /\ wk' = [wk EXCEPT ![w].pc = "responded",
                              ![w].response = response_for(wk[w].out.value, wk[w].range)]
       \/ /\ wk[w].pc = "raised"
          /\ wk' = [wk EXCEPT ![w].pc = "responded", ![w].response = [status |-> 500]]
    /\ UNCHANGED <<loader, engine, cache, fs, feed, planVars, padVars, spliceVars>>

(***************************************************************************)
(* Specifications.                                                         *)
(***************************************************************************)
Step(w) == InsertAdd(w) \/ Pad(w) \/ ReadAndCache(w) \/ Finally(w)

Init == AppInit /\ PlanIdle /\ PadIdle /\ SpliceIdle

\* The splice engine under direct calls from concurrent workers.
Next ==
    \/ \E w \in Workers : Call(w)
    \/ \E w \in Workers : InsertAdd(w)
    \/ \E w \in Workers : Pad(w)
    \/ \E w \in Workers : ReadAndCache(w)
    \/ \E w \in Workers : Finally(w)

Spec == Init /\ [][Next]_vars

\* Every request that has begun keeps running: a worker is never abandoned
\* in the middle of insert_ad_and_pad.
\* Checked from the catalogs with one advertisement.
LiveInit == Init /\ Len(loader.ads) = 1
LiveSpec == LiveInit /\ [][Next]_vars /\ \A w \in Workers : WF_vars(Step(w))

EventLoop == "w1"

\* The splice engine called by one caller, one call after the other.
SeqNext ==
    \/ Call(EventLoop)
    \/ InsertAdd(EventLoop)
    \/ Pad(EventLoop)
    \/ ReadAndCache(EventLoop)
    \/ Finally(EventLoop)

SeqSpec == Init /\ [][SeqNext]_vars

\* The web application: /rss and episode requests.  The handlers are
\* coroutines that never await, so the event loop runs each request to its
\* end before it takes the next one: one worker serves them all.
AppNext ==
    \/ Rss
    \/ Episode(EventLoop)
    \/ InsertAdd(EventLoop)
    \/ Pad(EventLoop)
    \/ ReadAndCache(EventLoop)
    \/ Finally(EventLoop)
    \/ Respond(EventLoop)

AppSpec == Init /\ [][AppNext]_vars

\* The planner and the padder as functions of their arguments.
AppIdle == AppInit /\ loader.music_track = LowMusic /\ engine["ad1.mp3"] = [ok |-> FALSE, off |-> 0, partial |-> FALSE]

PlanSpecInit == PlanInit /\ PadIdle /\ SpliceIdle /\ AppIdle
PlanSpec == PlanSpecInit /\ [][PlanBitrate]_vars

PadSpecInit == PadInit /\ PlanIdle /\ SpliceIdle /\ AppIdle
PadSpec == PadSpecInit /\ [][PadMp3]_vars

\* _insert_add's plan as a function of its arguments.
SpliceSpecInit == SpliceInit /\ PlanIdle /\ PadIdle /\ AppIdle
SpliceSpec == SpliceSpecInit /\ [][PlanSplice]_vars

(***************************************************************************)
(* Properties.                                                             *)
(***************************************************************************)
Started(w)  == wk[w].pc # "idle"
Computed(w) == Started(w) /\ ~wk[w].hit

\* C1: every byte buffer insert_ad_and_pad returns has exactly the length of
\* the request's target_size_bytes, and a request whose padder returned False
\* reports failure instead of returning bytes.  Stated for the buffers the
\* request computed itself (a cache miss) from an encoding that succeeded.
C1_ReturnedBytesHaveTargetSize ==
    \A w \in Workers :
        (wk[w].pc = "returned" /\ Computed(w) /\ wk[w].insert_ok = Returned(TRUE)) =>
            /\ wk[w].out.value.size = wk[w].target
            /\ wk[w].pad_ok = Returned(TRUE)

\* C2: when the encoding engine failed (_insert_add returned False) the
\* request is all-or-nothing: it returns no bytes and the cache gets no entry
\* made from the failed work file.
C2_EncodingFailureIsFatal ==
    \A w \in Workers :
        (wk[w].insert_ok = Returned(FALSE) /\ wk[w].pc \in {"finally", "returned", "raised"}) =>
            /\ wk[w].out.kind = "raise"
            /\ \/ Key(wk[w].original, wk[w].ad) \notin DOMAIN cache
               \/ cache[Key(wk[w].original, wk[w].ad)].audio.kind = "spliced"

\* C3: the Content-Length of a full (200, no Range header) episode response is
\* the enclosure length the feed advertises, MediaLoader.target_bytes_size().
\* Stated for the responses whose bytes the request computed itself from an
\* encoding that succeeded.
C3_ContentLengthIsFeedLength ==
    \A w \in Workers :
        (/\ wk[w].pc = "responded" /\ wk[w].response.status = 200
         /\ Computed(w) /\ wk[w].insert_ok = Returned(TRUE)) =>
            /\ wk[w].response.content_length = target_bytes_size(loader)
            /\ feed.kind = "return" => wk[w].response.content_length = feed.value

\* The planner's precondition s*0.95*8/d >= r*1000, without the division.
RateFits(r, d, s) == r * 1000 * 5 * d <= 38 * s

\* C4: for d > 0 and s with s*0.95*8/d >= 32000 the planner returns the
\* largest ladder value b with b*1000 <= s*0.95*8/d; d=300, s=5,000,000
\* gives 112.
C4_LargestLadderValueThatFits ==
    (target_bitrate.kind # "pending" /\ RateFits(32, duration_seconds, target_size_bytes)) =>
        /\ target_bitrate.kind = "return"
        /\ target_bitrate.value \in Ladder
        /\ RateFits(target_bitrate.value, duration_seconds, target_size_bytes)
        /\ \A c \in Ladder :
              RateFits(c, duration_seconds, target_size_bytes) => c <= target_bitrate.value
        /\ (duration_seconds = 300 /\ target_size_bytes = 5000000) => target_bitrate.value = 112

C4_Witness ==
    /\ duration_seconds = 300
    /\ target_size_bytes = 5000000
    /\ target_bitrate = Returned(112)

TooSmall(r) == ~RateFits(32, r.original.duration + r.ad.duration, r.target)

\* Every cache entry holds a complete splice of exactly some target's size.
HealthyCache ==
    \A k \in DOMAIN cache : cache[k].audio.kind = "spliced" /\ cache[k].size \in Targets

\* C5 as claimed: a request whose target is too small for even 32 kbps runs
\* no encoding and returns no bytes.  (Stated for a cache that holds only
\* complete, exactly sized splices.)
C5_TooSmallReturnsNoBytes ==
    \A w \in Workers :
        (Started(w) /\ TooSmall(wk[w]) /\ HealthyCache) =>
            /\ wk[w].encoder_runs = 0
            /\ wk[w].out.kind # "return"

\* C5, amended: a request that misses the cache and whose target is too small
\* for even 32 kbps gets the planner's AssertionError: it runs neither the
\* encoder nor the padder, returns no bytes, and none of its steps changes
\* the cache.
C5_TooSmallMissRaises ==
    /\ [](\A w \in Workers :
            (Computed(w) /\ TooSmall(wk[w])) =>
                /\ wk[w].pc \in {"insert", "finally", "raised"}
                /\ wk[w].encoder_runs = 0
                /\ wk[w].padder_runs = 0
                /\ wk[w].out.kind # "return"
                /\ wk[w].pc # "insert" => wk[w].out = Raised(AssertionError))
    /\ [][\A w \in Workers :
            (wk'[w] # wk[w] /\ wk'[w].pc # "idle" /\ ~wk'[w].hit /\ TooSmall(wk'[w]))
                => cache' = cache]_vars

C5_Witness ==
    \E w \in Workers :
        /\ wk[w].pc = "raised"
        /\ Computed(w)
        /\ TooSmall(wk[w])
        /\ wk[w].out = Raised(AssertionError)
        /\ wk[w].tmp \notin DOMAIN fs

PadRan == pad_out.kind = "return" /\ pad_file # NoFile

\* target_size - current_size >= frame overhead (so current_size <= target_size)
RoomForFrame == pad_target - pad_file.size >= TXXX_FRAME_OVERHEAD

\* One padding entry of exactly target - current - overhead zero bytes, no
\* implicit padding, the file ends at the target size, the result is True.
PaddedExactly ==
    /\ pad_out.ok
    /\ pad_out.file.size = pad_target
    /\ pad_out.written = pad_target - pad_file.size - TXXX_FRAME_OVERHEAD
    /\ pad_out.file.pad = pad_out.written
    /\ pad_out.file.size = pad_file.size + TXXX_FRAME_OVERHEAD + pad_out.written

\* C6 as claimed: for any file with current_size <= target_size and
\* target_size - current_size >= TXXX_FRAME_OVERHEAD, _pad_mp3_to_size writes
\* one padding entry of exactly (target_size - current_size - overhead) zero
\* bytes with no implicit padding, the file then has exactly target_size bytes
\* and the function returns True.
\* (Stated for files that start with an ID3 tag and whose padding frame costs
\* exactly TXXX_FRAME_OVERHEAD bytes.)
C6_PadsAnyFileExactly ==
    (PadRan /\ RoomForFrame /\ pad_file.tagged /\ ~pad_file.locked
        /\ pad_file.frame = TXXX_FRAME_OVERHEAD)
        => PaddedExactly

\* The file starts with an ID3 tag that holds no "TXXX:padding" entry yet,
\* it can be written to, and a padding frame costs TXXX_FRAME_OVERHEAD bytes
\* beyond its text.
FreshCalibratedTag ==
    /\ pad_file.tagged
    /\ ~pad_file.locked
    /\ pad_file.pad = NoFrame
    /\ pad_file.frame = TXXX_FRAME_OVERHEAD

\* What the padder does guarantee: a file that starts with an ID3 tag holding
\* no "TXXX:padding" entry yet, and whose padding frame costs exactly
\* TXXX_FRAME_OVERHEAD bytes, is padded exactly; when the frame costs anything
\* else the function returns False.
PadsFreshTaggedFileExactly ==
    /\ (PadRan /\ RoomForFrame /\ FreshCalibratedTag) => PaddedExactly
    /\ (PadRan /\ RoomForFrame /\ pad_file.tagged /\ pad_file.pad = NoFrame
            /\ pad_file.frame # TXXX_FRAME_OVERHEAD) =>
          (~pad_out.ok /\ pad_out.file.size # pad_target)

PaddedFreshFile ==
    /\ PadRan
    /\ FreshCalibratedTag
    /\ pad_target - pad_file.size > TXXX_FRAME_OVERHEAD
    /\ pad_out.ok
    /\ pad_out.written > 0
    /\ pad_out.file.size = pad_target

\* C7: when the file is larger than target_size, _pad_mp3_to_size returns
\* False and leaves the file as it is: no tag is read or written, nothing is
\* truncated, the size stays at its initial value.
C7_OversizedFileIsLeftAlone ==
    (PadRan /\ pad_file.size > pad_target) =>
        /\ ~pad_out.ok
        /\ pad_out.file = pad_file
        /\ ~pad_out.tag_read
        /\ pad_out.written = NoFrame

C7_Witness ==
    /\ PadRan
    /\ pad_file.tagged
    /\ pad_file.size > pad_target
    /\ ~pad_out.ok
    /\ pad_out.file.size = pad_file.size

\* 0 <= target_size - current_size < frame overhead
NoRoomForFrame ==
    /\ pad_file.size <= pad_target
    /\ pad_target - pad_file.size < TXXX_FRAME_OVERHEAD

\* C8 as claimed: at target_size = current_size, and whenever
\* 0 <= target_size - current_size < frame overhead, the padding length the
\* padder computes is never negative, the padding content written is
\* zero-length, and success is never reported for a file whose size differs
\* from target_size.
C8_PaddingLengthNeverNegative ==
    (PadRan /\ NoRoomForFrame) =>
        /\ pad_out.sized /\ pad_out.padding_size >= 0
        /\ pad_out.written \in {NoFrame, 0}
        /\ pad_out.ok => pad_out.file.size = pad_target

\* C8, amended: in that range the computed padding_size is negative (it is
\* target_size - current_size - overhead, -overhead at the boundary); the
\* padding content written is nevertheless zero-length, success is never
\* reported for a file whose size differs from target_size, and a file without
\* a prior padding entry ends larger than the target with the result False.
C8_NegativeSizeWritesEmptyPadding ==
    (PadRan /\ NoRoomForFrame) =>
        /\ pad_out.sized
        /\ pad_out.padding_size = pad_target - pad_file.size - TXXX_FRAME_OVERHEAD
        /\ pad_out.padding_size < 0
        /\ (pad_out.tag_read /\ ~pad_file.locked) => pad_out.written = 0
        /\ pad_out.written \in {NoFrame, 0}
        /\ pad_out.ok => pad_out.file.size = pad_target
        /\ pad_file.pad = NoFrame => ~pad_out.ok
        /\ (pad_file.tagged /\ pad_file.pad = NoFrame /\ ~pad_file.locked) =>
              pad_out.file.size = pad_file.size + pad_file.frame

C8_Witness ==
    /\ PadRan
    /\ pad_file.tagged /\ pad_file.pad = NoFrame
    /\ pad_file.size = pad_target
    /\ pad_out.padding_size = -TXXX_FRAME_OVERHEAD
    /\ pad_out.written = 0
    /\ ~pad_out.ok

Ended(r) == r.pc \in {"returned", "raised"}

\* The step begins a call with the arguments of the caller's last call.
SameCallAgain(w) ==
    /\ Ended(wk[w])
    /\ wk'[w] # wk[w]
    /\ wk'[w].original = wk[w].original
    /\ wk'[w].ad = wk[w].ad
    /\ wk'[w].target = wk[w].target

\* The call ends at once with the bytes of the last call: a cache hit that
\* runs neither _insert_add nor the padder and creates no work file.
ServedFromCache(w) ==
    /\ wk'[w].pc = "returned"
    /\ wk'[w].hit
    /\ wk'[w].out = wk[w].out
    /\ wk'[w].encoder_runs = 0
    /\ wk'[w].padder_runs = 0
    /\ wk'[w].tmp = NoName
    /\ fs' = fs
    /\ cache' = cache

\* C9 as claimed: a second call of insert_ad_and_pad on the same AudioSplicer
\* with identical (original, ad, target_size) returns byte-identical output
\* and is a cache hit: no _insert_add, no padder, no temp file.
C9_SecondCallIsCacheHit ==
    [][\A w \in Workers : SameCallAgain(w) => ServedFromCache(w)]_vars

\* C9, amended: when the first call returned bytes, a second call with
\* identical (original, ad, target_size) returns byte-identical output and is
\* a cache hit: no _insert_add, no padder, no temp file.  (A first call that
\* raised stored nothing, and the second call computes again.)
C9_SecondCallAfterReturnIsCacheHit ==
    [][\A w \in Workers :
          (SameCallAgain(w) /\ wk[w].pc = "returned") => ServedFromCache(w)]_vars

\* A hit that returns spliced bytes of exactly the request's target size: the
\* bytes an earlier call with the same arguments computed and returned.
C9_Witness ==
    \E w \in Workers :
        /\ wk[w].pc = "returned"
        /\ wk[w].hit
        /\ wk[w].encoder_runs = 0 /\ wk[w].padder_runs = 0 /\ wk[w].tmp = NoName
        /\ wk[w].out.value.audio.kind = "spliced"
        /\ wk[w].out.value.audio.ad = wk[w].ad.name
        /\ wk[w].out.value.size = wk[w].target
        /\ fs = << >>

\* The work files that exist are those of the requests in flight, one each.
NoLeak ==
    /\ DOMAIN fs = {wk[w].tmp : w \in {v \in Workers : InFlight(v)}}
    /\ \A v, w \in Workers :
          (InFlight(v) /\ InFlight(w) /\ v # w) => wk[v].tmp # wk[w].tmp

\* The bytes a request is about to return are those of its work file, which
\* still exists while the return is pending.
ReadBeforeUnlink ==
    \A w \in Workers :
        (wk[w].pc = "finally" /\ wk[w].out.kind = "return") =>
            /\ wk[w].tmp \in DOMAIN fs
            /\ wk[w].out.value = fs[wk[w].tmp]

\* A work file goes away only in the finally clause of the request that made it.
UnlinkedByOwner ==
    \A n \in TmpNames :
        (n \in DOMAIN fs /\ n \notin DOMAIN fs') =>
            \E w \in Workers :
                /\ wk[w].pc = "finally" /\ wk[w].tmp = n
                /\ Ended(wk'[w])

\* C10: every cache-miss request of insert_ad_and_pad that creates a work
\* file eventually removes it on every exit path (normal return, planning
\* error, encoding failure, padding failure, read error), only after the
\* final bytes have been read, and no work file outlives its request.
C10_WorkFileAlwaysRemoved ==
    /\ []NoLeak
    /\ []ReadBeforeUnlink
    /\ [][UnlinkedByOwner]_vars
    /\ \A w \in Workers :
          (InFlight(w) /\ wk[w].tmp \in DOMAIN fs)
              ~> (Ended(wk[w]) /\ wk[w].tmp \notin DOMAIN fs)

\* Two requests have ended and left no work file behind: one raised, the
\* other returned bytes after its encoder and its padder had both failed.
C10_Witness ==
    /\ fs = << >>
    /\ \E v, w \in Workers :
          /\ wk[v].pc = "raised" /\ wk[v].tmp # NoName
          /\ wk[w].pc = "returned" /\ wk[w].tmp # NoName
          /\ wk[w].insert_ok = Returned(FALSE)
          /\ wk[w].pad_ok = Returned(FALSE)

PlanMade == splice_plan.kind = "return"

RegionLen(r) == r.end - r.start

\* The seven regions with the boundaries of the claim, of lengths that are
\* not negative, contiguous within each source, summing to both durations.
WellFormedTimeline(rs, original_duration, ad_duration) ==
    LET mid  == halves(original_duration) \div 2
        fade == halves(fade_duration)
    IN  /\ Len(rs) = 7
        /\ <<rs[1].start, rs[1].end>> = <<0, mid - fade>>
        /\ <<rs[2].start, rs[2].end>> = <<mid - fade, mid>>
        /\ <<rs[3].start, rs[3].end>> = <<0, fade>>
        /\ <<rs[4].start, rs[4].end>> = <<fade, halves(ad_duration) - fade>>
        /\ <<rs[5].start, rs[5].end>> = <<halves(ad_duration) - fade, halves(ad_duration)>>
        /\ <<rs[6].start, rs[6].end>> = <<mid, mid + fade>>
        /\ <<rs[7].start, rs[7].end>> = <<mid + fade, halves(original_duration)>>
        /\ \A i \in 1..7 : rs[i].start <= rs[i].end
        /\ rs[1].end = rs[2].start /\ rs[2].end = rs[6].start /\ rs[6].end = rs[7].start
        /\ rs[3].end = rs[4].start /\ rs[4].end = rs[5].start
        /\ RegionLen(rs[1]) + RegionLen(rs[2]) + RegionLen(rs[3]) + RegionLen(rs[4])
             + RegionLen(rs[5]) + RegionLen(rs[6]) + RegionLen(rs[7])
           = halves(original_duration) + halves(ad_duration)

\* C11: for every original and ad duration for which _insert_add produces a
\* plan, the plan has the 7 regions [0, mid-2], [mid-2, mid], ad [0, 2],
\* ad [2, ad-2], ad [ad-2, ad], [mid, mid+2], [mid+2, original], with
\* boundaries that do not decrease, contiguous within each source, each of
\* non-negative length, and summing to original_duration + ad_duration.
C11_TimelineIsWellFormed ==
    PlanMade =>
        WellFormedTimeline(splice_plan.value.regions,
                           splice_original.duration, splice_ad.duration)

TooShortToFade ==
    \/ splice_ad.duration < 2 * fade_duration
    \/ splice_original.duration < 2 * fade_duration

\* What the timeline does satisfy: it is well formed whenever both durations
\* are at least two fade windows long; for 600 s and 30 s the lead-in is
\* 0-298, the ad body lasts 26 s and the lead-out is 302-600.
TimelineWellFormedWhenLongEnough ==
    /\ (PlanMade /\ ~TooShortToFade) =>
          WellFormedTimeline(splice_plan.value.regions,
                             splice_original.duration, splice_ad.duration)
    /\ (PlanMade /\ splice_original.duration = 600 /\ splice_ad.duration = 30) =>
          LET rs == splice_plan.value.regions
          IN  /\ <<rs[1].start, rs[1].end>> = <<halves(0), halves(298)>>
              /\ RegionLen(rs[4]) = halves(26)
              /\ <<rs[7].start, rs[7].end>> = <<halves(302), halves(600)>>

\* C12: when ad_duration < 2*fade_duration or original_duration <
\* 2*fade_duration (4 s), timeline construction fails fast with an error
\* before anything is handed to the encoder; no plan with a region whose end
\* lies before its start is ever emitted.
C12_ShortDurationsFailFast ==
    /\ (splice_plan # Pending /\ TooShortToFade) => splice_plan.kind = "raise"
    /\ PlanMade => \A i \in 1..7 : splice_plan.value.regions[i].start
                                      <= splice_plan.value.regions[i].end

\* The ad stream a region draws from, under any split.
SourceOf(stream) == IF stream.kind = "asplit" THEN stream.of ELSE stream

\* C16: the plan converts the ad exactly when its sample rate, channel count
\* or sample format (s16 when absent, on both sides) differs from the
\* original's; then one conversion to the original's parameters, applied to
\* the ad input before any trim, feeds the three ad regions, each from its
\* own output of the split; otherwise the three regions draw from the
\* unconverted ad stream.
C16_ConversionExactlyWhenFormatsDiffer ==
    PlanMade =>
        LET p == splice_plan.value
            o == splice_original.stream
            a == splice_ad.stream
            differs == \/ a.sample_rate # o.sample_rate
                       \/ a.channels # o.channels
                       \/ sample_fmt_or_s16(a) # sample_fmt_or_s16(o)
            fed == {p.regions[i].stream : i \in {3, 4, 5}}
        IN  /\ p.needs_conversion = differs
            /\ differs =>
                  /\ \A st \in fed : st.kind = "asplit"
                  /\ Cardinality({st.of : st \in fed}) = 1
                  /\ {st.output : st \in fed} = {1, 2, 3}
                  /\ \A st \in fed :
                        /\ st.of.kind = "converted"
                        /\ st.of.of = AudioOf("ad")
                        /\ st.of.aresample = o.sample_rate
                        /\ st.of.sample_rates = o.sample_rate
                        /\ st.of.channel_layouts = o.channels
                        /\ st.of.sample_fmts = sample_fmt_or_s16(o)
            /\ ~differs => fed = {AudioOf("ad")}
            /\ \A i \in {1, 2, 6, 7} : p.regions[i].stream = AudioOf("original")

\* A plan whose ad has no sample_fmt field while the original is s16, with a
\* different sample rate: converted, to the original's rate.
C16_Witness ==
    /\ PlanMade
    /\ "sample_fmt" \notin DOMAIN splice_ad.stream
    /\ "sample_fmt" \in DOMAIN splice_original.stream
    /\ splice_original.stream.sample_fmt = "s16"
    /\ splice_ad.stream.sample_rate # splice_original.stream.sample_rate
    /\ splice_plan.value.needs_conversion
    /\ splice_plan.value.regions[4].stream.kind = "asplit"

\* C13: cache entries are immutable and never evicted: once the cache holds
\* a value for a key (original filename, ad filename), no step, of any
\* interleaving of concurrent workers, removes the key or replaces its value
\* by a different byte buffer.  (Stated for steps between caches that hold
\* only complete, exactly sized splices.)
C13_CacheEntriesAreImmutable ==
    [][(HealthyCache /\ HealthyCache') =>
          \A k \in DOMAIN cache : k \in DOMAIN cache' /\ cache'[k] = cache[k]]_vars

\* What the cache does satisfy: no key is ever removed.
CacheKeysNeverRemoved ==
    [][\A k \in DOMAIN cache : k \in DOMAIN cache']_vars

\* The step is worker w starting a call.
StartsCall(w) == Ready(w) /\ wk'[w] # wk[w]

\* C14: the cache is keyed on (original, ad) only, not on the target size: a
\* request for a pair that is already cached is a hit, whatever its target,
\* and returns the cached bytes, computed for the target of the request that
\* stored them, without recomputation.
C14_CacheIgnoresTargetSize ==
    [][\A w \in Workers :
          (StartsCall(w) /\ Key(wk'[w].original, wk'[w].ad) \in DOMAIN cache) =>
              /\ wk'[w].pc = "returned"
              /\ wk'[w].hit
              /\ wk'[w].out = Returned(cache[Key(wk'[w].original, wk'[w].ad)])
              /\ wk'[w].encoder_runs = 0
              /\ wk'[w].padder_runs = 0
              /\ wk'[w].tmp = NoName
              /\ fs' = fs
              /\ cache' = cache]_vars

\* A hit for target t2 that returned a complete splice padded to another
\* target t1.
C14_Witness ==
    \E w \in Workers :
        /\ wk[w].pc = "returned" /\ wk[w].hit
        /\ wk[w].encoder_runs = 0
        /\ wk[w].out.value.audio.kind = "spliced"
        /\ wk[w].out.value.size \in Targets \ {wk[w].target}
        /\ wk[w].out.value.pad # NoFrame

SameInputs(v, w) ==
    /\ wk[v].original = wk[w].original
    /\ wk[v].ad = wk[w].ad
    /\ wk[v].target = wk[w].target

\* Two requests in flight have two different work files, both existing.
OwnWorkFiles ==
    \A v, w \in Workers :
        (v # w /\ InFlight(v) /\ InFlight(w)) =>
            /\ wk[v].tmp # wk[w].tmp
            /\ {wk[v].tmp, wk[w].tmp} \subseteq DOMAIN fs

\* A work file is changed or removed only by a step of the request that
\* made it, and the bytes a request takes are those of its own file.
OnlyOwnerTouchesFile ==
    /\ \A n \in DOMAIN fs :
          (n \notin DOMAIN fs' \/ fs'[n] # fs[n]) =>
              \E w \in Workers : InFlight(w) /\ wk[w].tmp = n /\ wk'[w] # wk[w]
    /\ \A w \in Workers :
          (wk[w].pc = "read" /\ wk'[w].out.kind = "return") =>
              wk'[w].out.value = fs[wk[w].tmp]

\* Two requests that computed the same inputs return the same bytes.
SameInputsSameBytes ==
    \A v, w \in Workers :
        (/\ Computed(v) /\ Computed(w) /\ SameInputs(v, w)
         /\ wk[v].out.kind = "return" /\ wk[w].out.kind = "return") =>
            wk[v].out = wk[w].out

\* C15: two concurrent requests for the same (original, ad) pair can both
\* miss the cache and both run the whole encode-and-pad computation; then
\* each works on its own uniquely named temp file, neither removes or reads
\* the other's file, and for identical inputs both return identical bytes.
C15_ConcurrentMissesComputeApart ==
    /\ []OwnWorkFiles
    /\ [][OnlyOwnerTouchesFile]_vars
    /\ []SameInputsSameBytes

\* Both workers missed on the same inputs, both ran the encoder and the
\* padder on files of their own, and both are about to return the same bytes.
C15_Witness ==
    /\ wk["w1"].pc = "finally" /\ wk["w2"].pc = "finally"
    /\ ~wk["w1"].hit /\ ~wk["w2"].hit
    /\ SameInputs("w1", "w2")
    /\ wk["w1"].encoder_runs = 1 /\ wk["w2"].encoder_runs = 1
    /\ wk["w1"].padder_runs = 1 /\ wk["w2"].padder_runs = 1
    /\ wk["w1"].tmp # wk["w2"].tmp
    /\ wk["w1"].out.kind = "return"
    /\ wk["w1"].out = wk["w2"].out
    /\ wk["w1"].out.value.size = wk["w1"].target

\* min(music.size + max over the loaded ads of ad.size, music.size * 1.10),
\* the 10 % bound truncated to an integer.
ExpectedTarget(l) ==
    LET sizes   == {l.ads[i].size : i \in 1..Len(l.ads)}
        biggest == CHOOSE x \in sizes : \A y \in sizes : y <= x
        with_ad == l.music_track.size + biggest
        with_ten_percent == (l.music_track.size * 11) \div 10
    IN  IF with_ad <= with_ten_percent THEN with_ad ELSE with_ten_percent

\* C17: MediaLoader.target_bytes_size() is min(music.size + the largest ad's
\* size, music.size * 1.10 truncated); it depends on the loaded catalog only,
\* not on the ad random_ad returns, and is the same on every call: the feed
\* and every episode request get this one value.
C17_TargetDependsOnCatalogOnly ==
    /\ [](feed.kind = "return" => feed.value = ExpectedTarget(loader))
    /\ [](\A w \in Workers :
            (Started(w) /\ wk[w].via = "http") => wk[w].target = ExpectedTarget(loader))
    /\ [][loader' = loader]_vars

\* With two ads loaded, a request that drew the smaller ad got the target
\* the feed advertises, music plus the larger ad.
C17_Witness ==
    /\ Len(loader.ads) = 2
    /\ feed.kind = "return"
    /\ \E w \in Workers :
          /\ Started(w) /\ wk[w].via = "http"
          /\ wk[w].ad = Ad1
          /\ wk[w].target = feed.value
          /\ wk[w].target = loader.music_track.size + Ad2.size

\* The response answers a request whose bytes are a complete splice of
\* exactly the target size.
AnswersExactSplice(w) ==
    /\ wk[w].pc = "responded"
    /\ wk[w].response.status # 500
    /\ wk[w].out.value.audio.kind = "spliced"
    /\ wk[w].out.value.size = wk[w].target

\* C18: for an episode request with 'Range: bytes=a-b' (either bound
\* optional) the response has status 206, its Content-Length is the number of
\* body bytes, and its Content-Range 'bytes start-end/size' describes exactly
\* the bytes returned: 0 <= start <= end <= size-1, the body is
\* audio_bytes[start..end] of length end - start + 1, and size is
\* len(audio_bytes); with no Range header the status is 200 and the whole
\* buffer is returned.
C18_RangeResponseDescribesItsBody ==
    \A w \in Workers :
        AnswersExactSplice(w) =>
            LET resp == wk[w].response
                size == wk[w].out.value.size
            IN  IF wk[w].range = NoRange
                THEN /\ resp.status = 200
                     /\ resp.content_length = size
                     /\ resp.body_from = 0 /\ resp.body_len = size
                ELSE /\ resp.status = 206
                     /\ resp.content_length = resp.body_len
                     /\ 0 <= resp.range_start
                     /\ resp.range_start <= resp.range_end
                     /\ resp.range_end <= size - 1
                     /\ resp.body_from = resp.range_start
                     /\ resp.body_len = resp.range_end - resp.range_start + 1
                     /\ resp.range_size = size

\* What the handler does satisfy: the status follows the presence of the
\* header, Content-Length is always the length of the body, the size part of
\* Content-Range is len(audio_bytes), and the range part describes the body
\* whenever the requested range lies inside the buffer.
RangeInsideBufferIsExact ==
    \A w \in Workers :
        (wk[w].pc = "responded" /\ wk[w].response.status # 500) =>
            LET resp == wk[w].response
                size == wk[w].out.value.size
            IN  IF wk[w].range = NoRange
                THEN /\ resp.status = 200
                     /\ resp.content_length = size
                     /\ resp.body_from = 0 /\ resp.body_len = size
                ELSE /\ resp.status = 206
                     /\ resp.content_length = resp.body_len
                     /\ resp.range_size = size
                     /\ (resp.range_start <= resp.range_end /\ resp.range_end <= size - 1) =>
                           /\ resp.body_from = resp.range_start
                           /\ resp.body_len = resp.range_end - resp.range_start + 1

\* The planner's result on every duration and size of the grid.
PlannedRate ==
    [q \in (1..MaxDuration) \X SizeGrid |-> calculate_target_bitrate(q[1], q[2])]

\* C19: _calculate_target_bitrate is monotone where it succeeds: for a fixed
\* duration the bitrate does not decrease when target_size_bytes grows, for a
\* fixed target size it does not increase when duration_seconds grows, and
\* the result is always one of the 14 ladder values.
C19_PlannerIsMonotone ==
    (target_bitrate.kind = "return" /\ duration_seconds <= MaxDuration) =>
        /\ target_bitrate.value \in Ladder
        /\ Cardinality(Ladder) = 14
        /\ \A s2 \in SizeGrid :
              (s2 >= target_size_bytes
                  /\ PlannedRate[<<duration_seconds, s2>>].kind = "return") =>
                  PlannedRate[<<duration_seconds, s2>>].value >= target_bitrate.value
        /\ \A d2 \in 1..MaxDuration :
              (d2 >= duration_seconds
                  /\ PlannedRate[<<d2, target_size_bytes>>].kind = "return") =>
                  PlannedRate[<<d2, target_size_bytes>>].value <= target_bitrate.value

\* An input planned at 112 kbps for which a larger size gives a higher rate
\* and a longer duration a lower one.
C19_Witness ==
    /\ target_bitrate = Returned(112)
    /\ duration_seconds < MaxDuration
    /\ \E s2 \in SizeGrid :
          /\ s2 > target_size_bytes
          /\ PlannedRate[<<duration_seconds, s2>>].kind = "return"
          /\ PlannedRate[<<duration_seconds, s2>>].value > 112
    /\ \E d2 \in 1..MaxDuration :
          /\ d2 > duration_seconds
          /\ PlannedRate[<<d2, target_size_bytes>>].kind = "return"
          /\ PlannedRate[<<d2, target_size_bytes>>].value < 112

\* Something goes wrong while the padder measures the file, reads its tag or
\* writes it: the file is missing, has no ID3 header, or cannot be written.
PadderFails ==
    \/ pad_file = NoFile
    \/ pad_file.size <= pad_target /\ ~pad_file.tagged
    \/ pad_file.size <= pad_target /\ pad_file.tagged /\ pad_file.locked

\* C20: _pad_mp3_to_size never lets an exception out: a missing file, a file
\* without an ID3 header and a writer error all become a False return, and
\* True is returned only when the tag was written and the final size
\* measured equals target_size.
C20_PadderNeverRaises ==
    pad_out # Pending =>
        /\ pad_out.kind = "return"
        /\ PadderFails => ~pad_out.ok
        /\ pad_out.ok =>
              /\ pad_file # NoFile
              /\ pad_out.written # NoFrame
              /\ pad_out.file.size = pad_target

\* The tag of a file with room for the frame was read, writing it failed, and
\* the padder returned False with the file as it was.
C20_Witness ==
    /\ PadRan
    /\ pad_file.tagged /\ pad_file.locked
    /\ pad_target - pad_file.size >= TXXX_FRAME_OVERHEAD
    /\ pad_out.tag_read
    /\ ~pad_out.ok
    /\ pad_out.file = pad_file

\* The length, in half seconds, of the audio concatenated for encoding.
ConcatenatedLength(p) ==
    p.streams[1] + p.streams[2] + p.streams[3] + p.streams[4] + p.streams[5]

\* C21: the duration _insert_add plans the bitrate for, original_duration +
\* ad_duration, is never less than the duration of the audio concatenated
\* for encoding; the five concatenated pieces total original_duration +
\* ad_duration - 2*fade_duration when both durations are at least
\* 2*fade_duration.
C21_PlanningDurationIsConservative ==
    PlanMade =>
        /\ Len(splice_plan.value.streams) = 5
        /\ splice_plan.value.total_duration
              = splice_original.duration + splice_ad.duration
        /\ halves(splice_plan.value.total_duration)
              >= ConcatenatedLength(splice_plan.value)
        /\ ~TooShortToFade =>
              ConcatenatedLength(splice_plan.value)
                  = halves(splice_original.duration + splice_ad.duration
                           - 2 * fade_duration)

\* What the plan does satisfy: the planning duration covers the concatenated
\* audio whenever the two durations together reach two fade windows, and for
\* two durations of at least two fade windows each the five pieces total
\* original_duration + ad_duration - 2*fade_duration.
PlanningCoversLongEnoughInputs ==
    PlanMade =>
        /\ splice_plan.value.total_duration
              = splice_original.duration + splice_ad.duration
        /\ splice_plan.value.total_duration >= 2 * fade_duration =>
              halves(splice_plan.value.total_duration)
                  >= ConcatenatedLength(splice_plan.value)
        /\ ~TooShortToFade =>
              ConcatenatedLength(splice_plan.value)
                  = halves(splice_original.duration + splice_ad.duration
                           - 2 * fade_duration)
        /\ splice_plan.value.total_duration < 2 * fade_duration =>
              ConcatenatedLength(splice_plan.value) = halves(2 * fade_duration)
====
